---- MODULE Spec2Model ----
(***************************************************************************)
(* A model of frostbit, a snowflake ID generator.                          *)
(*                                                                         *)
(*   src/src/lib.rs                 SnowflakeConfig, SnowflakeGenerator    *)
(*   src/src/timestamp_sequence.rs  TimestampSequenceGenerator (the atomic *)
(*                                  word), TimestampSequence               *)
(*   src/tests/increment.rs         the four-thread loom scenario          *)
(*                                                                         *)
(* Every integer of the source is a u64 and the counter is an AtomicU64.   *)
(* TLC's integers are 32 bits wide, so the model scales the machine word   *)
(* down to WORD_BITS bits: arithmetic wraps at 2^WORD_BITS and a bit       *)
(* layout is valid when its widths sum to at most WORD_BITS (64 in the     *)
(* source).  Nothing else is changed: masks, shifts and limits are derived *)
(* from the three widths exactly as SnowflakeConfig::new derives them.     *)
(*                                                                         *)
(* One call of generate() is split at its atomic operations: the call of   *)
(* the time source, the load, each compare_exchange and the fetch_add are  *)
(* one action each; the local computation between two of them belongs to   *)
(* the action before it.                                                   *)
(*                                                                         *)
(* Six specifications run the actions:                               *)
(*   Spec          two threads, any order of ticks, MaxCalls calls         *)
(*   SeqSpec       one thread, MaxSeqCalls calls, many of them in one tick *)
(*   EnvSpec       one thread, a time source that fails, overruns the      *)
(*                 timestamp field or is behind the epoch                  *)
(*   ScenarioSpec  the loom test: four threads, one call each              *)
(*   ConfigSpec    SnowflakeConfig::new on any three widths                *)
(*   LiveSpec      one call beside a thread calling without end, fairly    *)
(*                 scheduled                                               *)
(***************************************************************************)
EXTENDS Integers, Sequences, FiniteSets, TLC

VARIABLES
    layout,         \* the three widths given to SnowflakeConfig::new
    config,         \* SnowflakeGenerator.config / TimestampSequenceGenerator.config
    machine_id,     \* SnowflakeGenerator.machine_id
    epoch,          \* SnowflakeGenerator.epoch
    new_result,     \* what SnowflakeGenerator::new_with_config returned
    inner,          \* TimestampSequenceGenerator.inner, the atomic word
    call_counter,   \* number of calls of the time source made so far
    pc,             \* per thread: where its generate() call stands
    new_timestamp,  \* per thread: increment_sequence's argument
    prev_sequence,  \* per thread: increment_sequence's local prev_sequence
    now,            \* per thread: what the time source returned to the call
    calls_left,     \* per thread: the generate() calls it still makes
    history         \* the generate() calls that returned, in order of return

vars == <<layout, config, machine_id, epoch, new_result, inner, call_counter,
          pc, new_timestamp, prev_sequence, now, calls_left, history>>

----------------------------------------------------------------------------
(* Bounds of the model.                                                    *)

\* Width of the machine word (u64 in the source, scaled down).
WORD_BITS == 8

\* generate() calls made in one run of Spec (all threads together).
MaxCalls == 5

\* generate() calls made in one run of SeqSpec (one thread).
MaxSeqCalls == 9

\* generate() calls made in one run of EnvSpec (one thread).
MaxEnvCalls == 3

\* The threads sharing the generator in Spec.
Threads == {1, 2}

\* (timestamp_bits, machine_id_bits, sequence_bits) of the generators built.
Layouts == {<<1, 1, 1>>, <<2, 1, 1>>, <<2, 2, 1>>, <<2, 1, 2>>}

MachineIds == {1, 6}

\* The widths given to SnowflakeConfig::new in ConfigSpec: 0, the widths up
\* to one past the width of the word, and the two greatest u64 values.
Widths == (0 .. WORD_BITS + 1) \cup {2 ^ WORD_BITS - 2, 2 ^ WORD_BITS - 1}

\* The epochs of the generators built in EnvSpec: none, one after the first
\* tick of the time source, and the greatest u64.
Epochs == {0, 1, 2 ^ WORD_BITS - 1}

\* What the time source of Spec, of SeqSpec and of EnvSpec returns.
Nows == {0, 1, 2}

SeqNows == {0, 1}

EnvNows == {0, 1, 2, 3}

\* The layout of SnowflakeConfig::default().
DEFAULT_TIMESTAMP_BITS == 41

DEFAULT_MACHINE_ID_BITS == 10

DEFAULT_SEQUENCE_ID_BITS == 12

\* calls_left of a thread that calls generate() any number of times, of one
\* that calls it once, and of one that has made its call.
Forever == "forever"

Once == "once"

NoMore == "none"

\* src/tests/increment.rs: four threads, one generate() call each, on a
\* generator with machine id 0 and epoch 0.  The test runs the default layout
\* (41, 10, 12); at the width of the model its place is taken by layouts that
\* hold the four calls in one tick and have the ticks 0 and 1.
ScenarioThreads == {1, 2, 3, 4}

ScenarioLayouts == {<<2, 1, 2>>, <<2, 2, 2>>, <<3, 2, 3>>}

\* What a failing time source says: the message of test_timestamp_failure and
\* another one.
\* The layout of the generator of LiveSpec.
LiveLayouts == {<<2, 1, 1>>}

Messages == {"Timestamp error", "clock stopped"}

----------------------------------------------------------------------------
(* u64 arithmetic, at the width of the model.                              *)

Pow2(n) == 2 ^ n

WordModulus == Pow2(WORD_BITS)

WordMax == WordModulus - 1

\* a << n on a word: the bits shifted out at the top are lost.
Shl(a, n) == (a * Pow2(n)) % WordModulus

\* a >> n
Shr(a, n) == a \div Pow2(n)

RECURSIVE BitAnd(_, _)
\* a & b
BitAnd(a, b) ==
    IF a = 0 \/ b = 0 THEN 0
    ELSE (IF a % 2 = 1 /\ b % 2 = 1 THEN 1 ELSE 0) + 2 * BitAnd(a \div 2, b \div 2)

RECURSIVE BitOr(_, _)
\* a | b
BitOr(a, b) ==
    IF a = 0 THEN b
    ELSE IF b = 0 THEN a
    ELSE (IF a % 2 = 1 \/ b % 2 = 1 THEN 1 ELSE 0) + 2 * BitOr(a \div 2, b \div 2)

\* a - b as the release build computes it (two's complement wrap-around).
WrappingSub(a, b) == IF a >= b THEN a - b ELSE a + WordModulus - b

\* fetch_add(1) wraps around at the top of the word.
WrappingAdd(a, b) == (a + b) % WordModulus

----------------------------------------------------------------------------
(* src/src/lib.rs: the bit layout.                                         *)

\* The widths are u64 values like every other integer of the source, and the
\* arithmetic on them overflows like any other: a build with overflow checks
\* (debug) panics at the overflow, a build without them (release) wraps the
\* sum around, takes the shift amount modulo the width of the word and wraps
\* the power around.

\* 1 << bits overflows: the shift amount is not below the width of the word.
shift_overflows(bits) == bits >= WORD_BITS

\* (1 << bits) - 1, with the shift amount taken modulo the width of the word
\* (for a width below it, the result of either build).
build_mask(bits) == Shl(1, bits % WORD_BITS) - 1

\* bits as u32: the upper half of the word is cut off.
CastU32(bits) == bits % Pow2(WORD_BITS \div 2)

\* 2u64.pow(bits as u32) overflows.
pow_overflows(bits) == CastU32(bits) >= WORD_BITS

\* 2u64.pow(bits as u32) - 1, wrapped around (for a width below the width of
\* the word, the result of either build).
calc_max(bits) == WrappingSub(Pow2(CastU32(bits)) % WordModulus, 1)

\* validate_config, line 194: bit_sum > 64
bit_sum_too_large(bit_sum) == bit_sum > WORD_BITS

validate_config(machine_id_bits, sequence_bits, timestamp_bits, overflow_checks) ==
    LET first_sum == timestamp_bits + machine_id_bits
        bit_sum   == WrappingAdd(WrappingAdd(timestamp_bits, machine_id_bits),
                                 sequence_bits)
    IN  IF overflow_checks
            /\ (first_sum > WordMax \/ first_sum + sequence_bits > WordMax)
        THEN "Panic"
        ELSE IF bit_sum_too_large(bit_sum) THEN "InvalidBitConfig"
        ELSE IF machine_id_bits = 0 \/ sequence_bits = 0 \/ timestamp_bits = 0
             THEN "InvalidBitConfig"
             ELSE "Ok"

SnowflakeConfig_new(timestamp_bits, machine_id_bits, sequence_bits, overflow_checks) ==
    LET validated == validate_config(machine_id_bits, sequence_bits,
                                     timestamp_bits, overflow_checks)
    IN
    IF validated # "Ok"
    THEN [kind |-> validated]
    ELSE IF overflow_checks
            /\ (\/ shift_overflows(timestamp_bits)
                \/ shift_overflows(machine_id_bits)
                \/ shift_overflows(sequence_bits)
                \/ pow_overflows(timestamp_bits)
                \/ pow_overflows(sequence_bits))
    THEN [kind |-> "Panic"]
    ELSE [kind            |-> "Ok",
          machine_id_bits |-> machine_id_bits,
          sequence_bits   |-> sequence_bits,
          timestamp_mask  |-> build_mask(timestamp_bits),
          machine_id_mask |-> build_mask(machine_id_bits),
          sequence_mask   |-> build_mask(sequence_bits),
          timestamp_max   |-> calc_max(timestamp_bits),
          sequence_max    |-> calc_max(sequence_bits)]

timestamp_shift(cfg) == cfg.machine_id_bits + cfg.sequence_bits

----------------------------------------------------------------------------
(* src/src/timestamp_sequence.rs: the fields derived at construction.      *)

\* TimestampSequenceGenerator.shifted_timestamp_mask
shifted_timestamp_mask(cfg) == Shl(cfg.timestamp_mask, timestamp_shift(cfg))

\* TimestampSequenceGenerator.extended_sequence_mask
extended_sequence_mask(cfg) == build_mask(cfg.sequence_bits + 1)

\* The word TimestampSequenceGenerator::new stores in inner.
TimestampSequenceGenerator_new(timestamp, cfg) == Shl(timestamp, timestamp_shift(cfg))

\* increment_sequence, line 43: the candidate tick, shifted into place.
new_timestamp_shifted(timestamp, cfg) == Shl(timestamp, timestamp_shift(cfg))

\* The tick held by a word: (word & shifted_timestamp_mask) >> timestamp_shift.
StoredTick(word, cfg) ==
    Shr(BitAnd(word, shifted_timestamp_mask(cfg)), timestamp_shift(cfg))

\* The comparison of the loop turned around: a candidate ahead of the word
\* leaves the loop, a candidate behind it is written.
loop_break_inverted(candidate_shifted, prev, cfg) ==
    candidate_shifted >= BitAnd(prev, shifted_timestamp_mask(cfg))

\* increment_sequence, lines 46-49: the loop is left without a compare_exchange
\* when the candidate is not ahead of the tick of the word last seen.
loop_break(candidate_shifted, prev, cfg) ==
    candidate_shifted <= BitAnd(prev, shifted_timestamp_mask(cfg))

\* The exchange keeps the sequence of the word it replaces.
exchange_value_keeps_sequence(candidate_shifted, prev, cfg) ==
    BitOr(candidate_shifted, BitAnd(prev, extended_sequence_mask(cfg)))

\* increment_sequence, lines 51-56: the word compare_exchange stores on success.
exchange_value(candidate_shifted, prev, cfg) == candidate_shifted

\* The bound off by one: the last sequence of the tick is refused.
sequence_overflow_off_by_one(word, cfg) ==
    BitAnd(word, extended_sequence_mask(cfg)) >= cfg.sequence_max

\* increment_sequence, lines 63-64: the sequence is over budget.
sequence_overflow(word, cfg) ==
    BitAnd(word, extended_sequence_mask(cfg)) > cfg.sequence_max

\* increment_sequence, lines 63-74: the result, from the word fetch_add returned.
increment_result(word, cfg) ==
    IF sequence_overflow(word, cfg)
    THEN [kind |-> "SequenceOverflow", sequence |-> -1, timestamp |-> -1]
    ELSE [kind      |-> "Ok",
          sequence  |-> BitAnd(word, extended_sequence_mask(cfg)),
          timestamp |-> StoredTick(word, cfg)]

\* The machine id goes into the ID as it is given, not cut to its field.
into_snowflake_unmasked(timestamp, sequence, mid, cfg) ==
    LET timestamp_bits   == BitAnd(timestamp, cfg.timestamp_mask)
        sequence_id_bits == BitAnd(sequence, cfg.sequence_mask)
    IN  BitOr(BitOr(Shl(timestamp_bits, timestamp_shift(cfg)),
                    Shl(mid, cfg.sequence_bits)),
              sequence_id_bits)

\* TimestampSequence::into_snowflake
into_snowflake(timestamp, sequence, mid, cfg) ==
    LET timestamp_bits   == BitAnd(timestamp, cfg.timestamp_mask)
        machine_id_bits  == BitAnd(mid, cfg.machine_id_mask)
        sequence_id_bits == BitAnd(sequence, cfg.sequence_mask)
    IN  BitOr(BitOr(Shl(timestamp_bits, timestamp_shift(cfg)),
                    Shl(machine_id_bits, cfg.sequence_bits)),
              sequence_id_bits)

----------------------------------------------------------------------------
(* src/src/lib.rs: the generator.                                          *)

\* What the injected time source answers: Ok(value) or Err(msg).
SourceOk(v) == [ok |-> TRUE, value |-> v, msg |-> ""]

SourceErr(m) == [ok |-> FALSE, value |-> 0, msg |-> m]

\* The time source of Spec: any value of Nows, in any order.
Sources == {SourceOk(v) : v \in Nows}

\* The time source of SeqSpec: any value of SeqNows, in any order.
SeqSources == {SourceOk(v) : v \in SeqNows}

\* The time source of EnvSpec: any value of EnvNows, or a failure.
EnvSources ==
    {SourceOk(v) : v \in EnvNows} \cup {SourceErr(m) : m \in Messages}

\* The failure of the time source is returned without what it said.
get_epoch_relative_timestamp_drops_message(src, ep, cfg, overflow_checks) ==
    IF ~src.ok
    THEN [kind |-> "TimestampError", value |-> -1, msg |-> ""]
    ELSE IF src.value < ep /\ overflow_checks
    THEN [kind |-> "Panic", value |-> -1, msg |-> ""]
    ELSE LET timestamp_ms == WrappingSub(src.value, ep)
         IN  IF timestamp_ms < cfg.timestamp_max
             THEN [kind |-> "Ok", value |-> timestamp_ms, msg |-> ""]
             ELSE [kind |-> "TimestampOverflow", value |-> -1, msg |-> ""]

\* SnowflakeGenerator::get_epoch_relative_timestamp.  `get_timestamp()? - epoch`
\* underflows when the time source is behind the epoch: a build with overflow
\* checks (debug) panics there, a build without them (release) wraps around.
get_epoch_relative_timestamp(src, ep, cfg, overflow_checks) ==
    IF ~src.ok
    THEN [kind |-> "TimestampError", value |-> -1, msg |-> src.msg]
    ELSE IF src.value < ep /\ overflow_checks
    THEN [kind |-> "Panic", value |-> -1, msg |-> ""]
    ELSE LET timestamp_ms == WrappingSub(src.value, ep)
         IN  IF timestamp_ms < cfg.timestamp_max
             THEN [kind |-> "Ok", value |-> timestamp_ms, msg |-> ""]
             ELSE [kind |-> "TimestampOverflow", value |-> -1, msg |-> ""]

NotBuilt == [kind |-> "none", src |-> SourceOk(0), value |-> -1, msg |-> ""]

\* A generate() call that returned before it reached the counter.
ErrorEntry(r, src) ==
    [kind |-> r.kind, src |-> src, msg |-> r.msg, candidate |-> -1,
     word |-> -1, timestamp |-> -1, sequence |-> -1, id |-> -1]

\* A generate() call that went through increment_sequence: `word` is the
\* value fetch_add returned, `id` the snowflake (of a successful call).
IncrementEntry(src, candidate, word, cfg, mid) ==
    LET r == increment_result(word, cfg)
    IN  [kind |-> r.kind, src |-> src, msg |-> "",
         candidate |-> candidate, word |-> word,
         timestamp |-> r.timestamp, sequence |-> r.sequence,
         id |-> IF r.kind = "Ok"
                THEN into_snowflake(r.timestamp, r.sequence, mid, cfg)
                ELSE -1]

\* SnowflakeGenerator::new_with_config: one call of the time source, then the
\* counter is built at the relative timestamp, or the error is returned.
New(src, overflow_checks) ==
    /\ new_result.kind = "none"
    /\ LET r == get_epoch_relative_timestamp(src, epoch, config, overflow_checks)
       IN  /\ new_result' = [kind |-> r.kind, src |-> src, value |-> r.value,
                             msg |-> r.msg]
           /\ inner' = IF r.kind = "Ok"
                       THEN TimestampSequenceGenerator_new(r.value, config)
                       ELSE inner
    /\ call_counter' = call_counter + 1
    /\ UNCHANGED <<layout, config, machine_id, epoch, pc, new_timestamp, prev_sequence,
                   now, calls_left, history>>

\* generate(), lines 120-121: the time source is called and the relative
\* timestamp checked; an error returns at once and leaves the counter alone.
GetTimestamp(t, src, overflow_checks) ==
    /\ new_result.kind = "Ok"
    /\ pc[t] = "idle"
    /\ calls_left[t] # NoMore
    /\ calls_left' = [calls_left EXCEPT ![t] = IF @ = Forever THEN Forever ELSE NoMore]
    /\ call_counter' = call_counter + 1
    /\ LET r == get_epoch_relative_timestamp(src, epoch, config, overflow_checks)
       IN  IF r.kind = "Ok"
           THEN /\ pc' = [pc EXCEPT ![t] = "load"]
                /\ new_timestamp' = [new_timestamp EXCEPT ![t] = r.value]
                /\ now' = [now EXCEPT ![t] = src]
                /\ UNCHANGED history
           ELSE /\ history' = Append(history, ErrorEntry(r, src))
                /\ UNCHANGED <<pc, new_timestamp, now>>
    /\ UNCHANGED <<layout, config, machine_id, epoch, new_result, inner, prev_sequence>>

\* Where the loop of increment_sequence goes with `prev` in hand.
AfterLoad(t, prev) ==
    IF loop_break(new_timestamp_shifted(new_timestamp[t], config), prev, config)
    THEN "add" ELSE "cas"

\* increment_sequence, line 42: self.inner.load
Load(t) ==
    /\ pc[t] = "load"
    /\ prev_sequence' = [prev_sequence EXCEPT ![t] = inner]
    /\ pc' = [pc EXCEPT ![t] = AfterLoad(t, inner)]
    /\ UNCHANGED <<layout, config, machine_id, epoch, new_result, inner, call_counter,
                   new_timestamp, now, calls_left, history>>

\* increment_sequence, lines 51-59: self.inner.compare_exchange
CompareExchange(t) ==
    /\ pc[t] = "cas"
    /\ IF inner = prev_sequence[t]
       THEN /\ inner' = exchange_value(
                            new_timestamp_shifted(new_timestamp[t], config),
                            prev_sequence[t], config)
            /\ pc' = [pc EXCEPT ![t] = "add"]
            /\ UNCHANGED prev_sequence
       ELSE /\ prev_sequence' = [prev_sequence EXCEPT ![t] = inner]
            /\ pc' = [pc EXCEPT ![t] = AfterLoad(t, inner)]
            /\ UNCHANGED inner
    /\ UNCHANGED <<layout, config, machine_id, epoch, new_result, call_counter,
                   new_timestamp, now, calls_left, history>>

\* A call that finds the sequence over budget takes its addition back.
FetchAddRolledBack(t) ==
    /\ pc[t] = "add"
    /\ inner' = IF sequence_overflow(inner, config)
                THEN inner ELSE WrappingAdd(inner, 1)
    /\ history' = Append(history,
                         IncrementEntry(now[t], new_timestamp[t], inner,
                                        config, machine_id))
    /\ pc' = [pc EXCEPT ![t] = "idle"]
    /\ new_timestamp' = [new_timestamp EXCEPT ![t] = 0]
    /\ prev_sequence' = [prev_sequence EXCEPT ![t] = 0]
    /\ now' = [now EXCEPT ![t] = SourceOk(0)]
    /\ UNCHANGED <<layout, config, machine_id, epoch, new_result, call_counter, calls_left>>

\* increment_sequence, lines 62-74, and generate(), line 124:
\* self.inner.fetch_add(1), then the result is taken from the word it returned.
\* The call returns here and its locals are gone.
FetchAdd(t) ==
    /\ pc[t] = "add"
    /\ inner' = WrappingAdd(inner, 1)
    /\ history' = Append(history,
                         IncrementEntry(now[t], new_timestamp[t], inner,
                                        config, machine_id))
    /\ pc' = [pc EXCEPT ![t] = "idle"]
    /\ new_timestamp' = [new_timestamp EXCEPT ![t] = 0]
    /\ prev_sequence' = [prev_sequence EXCEPT ![t] = 0]
    /\ now' = [now EXCEPT ![t] = SourceOk(0)]
    /\ UNCHANGED <<layout, config, machine_id, epoch, new_result, call_counter, calls_left>>

----------------------------------------------------------------------------
(* Spec: two threads call generate() again and again, MaxCalls times in   *)
(* all, on a generator of any layout and machine id, with a time source    *)
(* that answers any tick in any order (ahead of, at or behind the tick     *)
(* stored).                                                                *)

InitWith(threads, layouts, mids, epochs, calls) ==
    /\ layout \in layouts
    /\ \E overflow_checks \in BOOLEAN :
           config = SnowflakeConfig_new(layout[1], layout[2], layout[3],
                                        overflow_checks)
    /\ machine_id \in mids
    /\ epoch \in epochs
    /\ new_result = NotBuilt
    /\ inner = 0
    /\ call_counter = 0
    /\ pc = [t \in threads |-> "idle"]
    /\ new_timestamp = [t \in threads |-> 0]
    /\ prev_sequence = [t \in threads |-> 0]
    /\ now = [t \in threads |-> SourceOk(0)]
    /\ calls_left = [t \in threads |-> calls]
    /\ history = <<>>

Init == InitWith(Threads, Layouts, MachineIds, {0}, Forever)

Construct == \E src \in Sources, overflow_checks \in BOOLEAN : New(src, overflow_checks)

Generate(t) ==
    /\ call_counter <= MaxCalls
    /\ \E src \in Sources, overflow_checks \in BOOLEAN :
           GetTimestamp(t, src, overflow_checks)

Next ==
    \/ Construct
    \/ \E t \in Threads : Generate(t)
    \/ \E t \in Threads : Load(t)
    \/ \E t \in Threads : CompareExchange(t)
    \/ \E t \in Threads : FetchAdd(t)

Spec == Init /\ [][Next]_vars

----------------------------------------------------------------------------
(* SeqSpec: one thread calls generate() MaxSeqCalls times, one call after  *)
(* the other, so that many calls land in one tick.                         *)

SeqInit == InitWith({1}, Layouts, MachineIds, {0}, Forever)

SeqConstruct ==
    \E src \in SeqSources, overflow_checks \in BOOLEAN : New(src, overflow_checks)

SeqGenerate ==
    /\ call_counter <= MaxSeqCalls
    /\ \E src \in SeqSources, overflow_checks \in BOOLEAN :
           GetTimestamp(1, src, overflow_checks)

SeqNext ==
    \/ SeqConstruct
    \/ SeqGenerate
    \/ Load(1)
    \/ CompareExchange(1)
    \/ FetchAdd(1)

SeqSpec == SeqInit /\ [][SeqNext]_vars

----------------------------------------------------------------------------
(* EnvSpec: one thread calls generate() MaxEnvCalls times on a generator   *)
(* of any epoch, with a time source that may fail, run past the timestamp  *)
(* field or be behind the epoch.                                           *)

EnvInit == InitWith({1}, Layouts, MachineIds, Epochs, Forever)

EnvConstruct ==
    \E src \in EnvSources, overflow_checks \in BOOLEAN : New(src, overflow_checks)

EnvGenerate ==
    /\ call_counter <= MaxEnvCalls
    /\ \E src \in EnvSources, overflow_checks \in BOOLEAN :
           GetTimestamp(1, src, overflow_checks)

EnvNext ==
    \/ EnvConstruct
    \/ EnvGenerate
    \/ Load(1)
    \/ CompareExchange(1)
    \/ FetchAdd(1)

EnvSpec == EnvInit /\ [][EnvNext]_vars

----------------------------------------------------------------------------
(* ScenarioSpec: the loom test of src/tests/increment.rs.  The time source *)
(* counts its calls and answers 0 to the first three (new() and the first  *)
(* two generate() calls) and 1 to the others.                              *)

\* increment.rs, lines 15-20: call_fn, with call_count the calls made before.
ScenarioSource(call_count) == SourceOk(IF call_count < 3 THEN 0 ELSE 1)

ScenarioInit == InitWith(ScenarioThreads, ScenarioLayouts, {0}, {0}, Once)

ScenarioConstruct ==
    \E overflow_checks \in BOOLEAN :
        New(ScenarioSource(call_counter), overflow_checks)

ScenarioGenerate(t) ==
    \E overflow_checks \in BOOLEAN :
        GetTimestamp(t, ScenarioSource(call_counter), overflow_checks)

ScenarioNext ==
    \/ ScenarioConstruct
    \/ \E t \in ScenarioThreads : ScenarioGenerate(t)
    \/ \E t \in ScenarioThreads : Load(t)
    \/ \E t \in ScenarioThreads : CompareExchange(t)
    \/ \E t \in ScenarioThreads : FetchAdd(t)

ScenarioSpec == ScenarioInit /\ [][ScenarioNext]_vars

----------------------------------------------------------------------------
(* LiveSpec: thread 1 calls generate() once while thread 2 calls it        *)
(* without end.  The calls that have returned are not kept (the run has no *)
(* last call) and the time source answers the ticks 0 and 1 in any order.  *)
(* A thread inside increment_sequence is scheduled again and again (weak   *)
(* fairness of its next atomic operation); whether and when a thread       *)
(* starts a call is left open.                                             *)

\* generate(), lines 120-121, with the call not counted: an error returns at
\* once and leaves everything as it was.
LiveGetTimestamp(t, src, overflow_checks) ==
    /\ new_result.kind = "Ok"
    /\ pc[t] = "idle"
    /\ calls_left[t] # NoMore
    /\ calls_left' = [calls_left EXCEPT ![t] = IF @ = Forever THEN Forever ELSE NoMore]
    /\ LET r == get_epoch_relative_timestamp(src, epoch, config, overflow_checks)
       IN  IF r.kind = "Ok"
           THEN /\ pc' = [pc EXCEPT ![t] = "load"]
                /\ new_timestamp' = [new_timestamp EXCEPT ![t] = r.value]
                /\ now' = [now EXCEPT ![t] = src]
           ELSE UNCHANGED <<pc, new_timestamp, now>>
    /\ UNCHANGED <<layout, config, machine_id, epoch, new_result, inner,
                   call_counter, prev_sequence, history>>

\* increment_sequence, lines 62-74: self.inner.fetch_add(1) and the return,
\* with the result not kept.
LiveFetchAdd(t) ==
    /\ pc[t] = "add"
    /\ inner' = WrappingAdd(inner, 1)
    /\ pc' = [pc EXCEPT ![t] = "idle"]
    /\ new_timestamp' = [new_timestamp EXCEPT ![t] = 0]
    /\ prev_sequence' = [prev_sequence EXCEPT ![t] = 0]
    /\ now' = [now EXCEPT ![t] = SourceOk(0)]
    /\ UNCHANGED <<layout, config, machine_id, epoch, new_result, call_counter,
                   calls_left, history>>

LiveInit ==
    /\ layout \in LiveLayouts
    /\ \E overflow_checks \in BOOLEAN :
           config = SnowflakeConfig_new(layout[1], layout[2], layout[3],
                                        overflow_checks)
    /\ machine_id = 0
    /\ epoch = 0
    /\ new_result = NotBuilt
    /\ inner = 0
    /\ call_counter = 0
    /\ pc = [t \in Threads |-> "idle"]
    /\ new_timestamp = [t \in Threads |-> 0]
    /\ prev_sequence = [t \in Threads |-> 0]
    /\ now = [t \in Threads |-> SourceOk(0)]
    /\ calls_left = [t \in Threads |-> IF t = 1 THEN Once ELSE Forever]
    /\ history = <<>>

LiveConstruct ==
    \E src \in SeqSources, overflow_checks \in BOOLEAN : New(src, overflow_checks)

LiveGenerate(t) ==
    \E src \in SeqSources, overflow_checks \in BOOLEAN :
        LiveGetTimestamp(t, src, overflow_checks)

\* The next atomic operation of a call inside increment_sequence.
LiveStep(t) == Load(t) \/ CompareExchange(t) \/ LiveFetchAdd(t)

LiveNext ==
    \/ LiveConstruct
    \/ \E t \in Threads : LiveGenerate(t)
    \/ \E t \in Threads : LiveStep(t)

LiveSpec ==
    LiveInit /\ [][LiveNext]_vars /\ \A t \in Threads : WF_vars(LiveStep(t))

----------------------------------------------------------------------------
(* ConfigSpec: SnowflakeConfig::new is called on three widths, valid or    *)
(* not.                                                                    *)

NoConfig == [kind |-> "none"]

\* SnowflakeConfig::new, called on the widths of `layout`.
ConfigNew(overflow_checks) ==
    /\ config.kind = "none"
    /\ config' = SnowflakeConfig_new(layout[1], layout[2], layout[3],
                                     overflow_checks)
    /\ UNCHANGED <<layout, machine_id, epoch, new_result, inner, call_counter,
                   pc, new_timestamp, prev_sequence, now, calls_left, history>>

ConfigInit ==
    /\ layout \in Widths \X Widths \X Widths
    /\ config = NoConfig
    /\ machine_id = 0
    /\ epoch = 0
    /\ new_result = NotBuilt
    /\ inner = 0
    /\ call_counter = 0
    /\ pc = [t \in {1} |-> "idle"]
    /\ new_timestamp = [t \in {1} |-> 0]
    /\ prev_sequence = [t \in {1} |-> 0]
    /\ now = [t \in {1} |-> SourceOk(0)]
    /\ calls_left = [t \in {1} |-> NoMore]
    /\ history = <<>>

ConfigNext == \E overflow_checks \in BOOLEAN : ConfigNew(overflow_checks)

ConfigSpec == ConfigInit /\ [][ConfigNext]_vars

----------------------------------------------------------------------------
(* What the claims speak of.                                               *)

Max(S) == CHOOSE x \in S : \A y \in S : y <= x

Calls == DOMAIN history

\* The calls that returned an ID.
Oks == {i \in Calls : history[i].kind = "Ok"}

\* The calls that went through increment_sequence (returned an ID or
\* SequenceOverflow).
Increments == {i \in Calls : history[i].kind \in {"Ok", "SequenceOverflow"}}

\* Two successful calls with no successful call between them.
SuccessiveOks(i, j) ==
    /\ i \in Oks /\ j \in Oks /\ i < j
    /\ \A k \in Oks : ~(i < k /\ k < j)

\* The timestamp field of an ID: everything above the machine id.
DecodeTimestamp(id) == Shr(id, timestamp_shift(config))

\* The tick the time source has reached when call i is made: the greatest
\* tick it has given so far, to new() or to a generate() call up to call i.
TickAt(i) ==
    Max({new_result.value} \cup {history[k].candidate : k \in 1..i})

\* The time source is held at the tick the generator was built at: every call
\* so far was given that tick.
TimeHeld ==
    \A i \in Calls :
        i \in Increments /\ history[i].candidate = new_result.value

\* Two calls that went through increment_sequence with none between them.
SuccessiveIncrements(i, j) ==
    /\ i \in Increments /\ j \in Increments /\ i < j
    /\ \A k \in Increments : ~(i < k /\ k < j)

\* The word a call made alone finds at its fetch_add, when the word was
\* `word` at its start and it was given the tick `candidate`.
WordFound(word, candidate) ==
    IF loop_break(new_timestamp_shifted(candidate, config), word, config)
    THEN word
    ELSE exchange_value(new_timestamp_shifted(candidate, config), word, config)

\* The step is the return of a generate() call with TimestampError.
ReturnsTimestampError ==
    /\ Len(history') = Len(history) + 1
    /\ history'[Len(history')].kind = "TimestampError"

\* The ID with `timestamp` above `mid` cut to its field above `sequence`,
\* in the integers.
Compose(timestamp, mid, sequence) ==
    timestamp * 2 ^ (config.machine_id_bits + config.sequence_bits)
        + (mid % 2 ^ config.machine_id_bits) * 2 ^ config.sequence_bits
        + sequence

\* into_snowflake at the default layout, for a timestamp and a sequence that
\* fit their fields.  The ID is wider than the integers of TLC and
\* is held in two parts: the sequence field and the bits above it.
DefaultSnowflake(timestamp, mid, sequence) ==
    [above_sequence |->
         BitOr(timestamp * 2 ^ DEFAULT_MACHINE_ID_BITS,
               BitAnd(mid, 2 ^ DEFAULT_MACHINE_ID_BITS - 1)),
     sequence |-> BitAnd(sequence, 2 ^ DEFAULT_SEQUENCE_ID_BITS - 1)]

\* 0x48D010000 and 0x48D010001 in the two parts: 0x48D010 above the twelve
\* bits of the sequence field.
ExampleIds ==
    <<[above_sequence |-> 4771856, sequence |-> 0],
      [above_sequence |-> 4771856, sequence |-> 1]>>

\* The word before call j went through the counter, with the calls made one
\* after the other: the word the call through the counter before it left,
\* or the word the generator was built with.
WordBefore(j) ==
    IF \E i \in Increments : i < j
    THEN WrappingAdd(history[Max({i \in Increments : i < j})].word, 1)
    ELSE TimestampSequenceGenerator_new(new_result.value, config)

\* Call j is the last one through the counter and no call is on its way
\* through it: the word is as call j left it.
LeftBy(j) ==
    /\ j \in Increments
    /\ \A k \in Increments : k <= j
    /\ \A t \in DOMAIN pc : pc[t] \in {"idle", "load"}

\* The timestamps supplied to the counter so far: the one it was built with
\* and the candidates of the calls that have returned or are on their way.
Supplied ==
    {new_result.value}
        \cup {history[k].candidate : k \in Increments}
        \cup {new_timestamp[t] : t \in {u \in DOMAIN pc : pc[u] # "idle"}}

\* The claim's condition for TimestampOverflow, in the integers.
TimestampOverflowExpected(src) ==
    src.ok /\ src.value - epoch >= config.timestamp_max

----------------------------------------------------------------------------
(* C1.  No two successful generate() calls return the same (tick,          *)
(* sequence) pair, hence never the same ID, whatever the interleaving, the *)
(* time source and the number of calls landing in one tick.                *)
(* Fails: the sequence is read through extended_sequence_mask, which is    *)
(* sequence_bits + 1 wide, so the 2 * (sequence_max + 1) + 1st call of a   *)
(* tick reads sequence 0 again (see C8).                                   *)
C1_Unique ==
    \A i \in Oks : \A j \in Oks :
        i < j =>
            /\ <<history[i].timestamp, history[i].sequence>>
                   # <<history[j].timestamp, history[j].sequence>>
            /\ history[i].id # history[j].id

----------------------------------------------------------------------------
(* C2.  Four threads call generate() once each on a generator built at     *)
(* tick 0; the time source answers 0 to the first two calls and 1 to the   *)
(* other two.  Every call that returns has succeeded, and once the four    *)
(* have returned the greatest ID decodes to tick 1.                        *)
C2_FourThreads ==
    /\ \A i \in Calls : history[i].kind = "Ok"
    /\ Len(history) = Cardinality(ScenarioThreads) =>
           DecodeTimestamp(Max({history[i].id : i \in Calls})) = 1

\* The four calls have returned, and a call that was given tick 0 has
\* returned tick 1: it ran after a call of tick 1 had advanced the word.
C2_Witness ==
    /\ Len(history) = Cardinality(ScenarioThreads)
    /\ \E i \in Calls :
           history[i].src.value = 0 /\ history[i].timestamp = 1

----------------------------------------------------------------------------
(* C3.  The tick stored in the counter word never decreases: in every step *)
(* the stored tick after the step is at least the stored tick before it.   *)
(* Fails: fetch_add carries out of the low bits into the timestamp field   *)
(* (see C18) and then out of it, and the masked tick falls back to 0.      *)
C3_TickNeverDecreases ==
    [][StoredTick(inner', config) >= StoredTick(inner, config)]_vars

----------------------------------------------------------------------------
(* C4.  For calls made one after another, the timestamp decoded from each  *)
(* successful result is at least the timestamp decoded from every earlier  *)
(* successful result.                                                      *)
(* Fails with C3: once the carry has left the timestamp field, the next    *)
(* call returns tick 0.                                                    *)
C4_MonotonicTimestamp ==
    \A i \in Oks : \A j \in Oks :
        i < j => DecodeTimestamp(history[j].id) >= DecodeTimestamp(history[i].id)

----------------------------------------------------------------------------
(* C5.  For two successive successful calls, if the later one returns a    *)
(* greater timestamp than the earlier one, it returns sequence 0, whatever *)
(* the number of calls, successful or failed, made in the earlier tick.    *)
C5_SequenceReset ==
    \A i \in Calls : \A j \in Calls :
        (SuccessiveOks(i, j) /\ history[j].timestamp > history[i].timestamp)
            => history[j].sequence = 0

\* A call returns a greater timestamp than the successful call before it,
\* after at least two calls have failed with SequenceOverflow in between.
C5_Witness ==
    \E i \in Calls : \E j \in Calls :
        /\ SuccessiveOks(i, j)
        /\ history[j].timestamp > history[i].timestamp
        /\ history[i].sequence > 0
        /\ j >= i + 3

----------------------------------------------------------------------------
(* C6.  The first successful call on a counter returns sequence 0; a later *)
(* successful call returns the sequence of the successful call before it   *)
(* plus 1 while the tick stays the same, and sequence 0 when the tick has  *)
(* changed.                                                                *)
(* Fails with C8: the call that succeeds after the sequence space of the   *)
(* tick was exhausted returns sequence 0 in the same tick.                 *)
C6_SequenceStep ==
    /\ \A i \in Oks : (\A k \in Oks : i <= k) => history[i].sequence = 0
    /\ \A i \in Calls : \A j \in Calls :
           SuccessiveOks(i, j) =>
               IF history[j].timestamp = history[i].timestamp
               THEN history[j].sequence = history[i].sequence + 1
               ELSE history[j].sequence = 0

----------------------------------------------------------------------------
(* C7.  With the time source held at the tick of construction, the first   *)
(* sequence_max + 1 generate() calls succeed (with the sequences 0, 1, ... *)
(* in that tick) and the call after them fails with SequenceOverflow.      *)
C7_Exhaustion ==
    TimeHeld =>
        \A i \in Calls :
            /\ i <= config.sequence_max + 1 =>
                   /\ history[i].kind = "Ok"
                   /\ history[i].sequence = i - 1
                   /\ history[i].timestamp = new_result.value
            /\ i = config.sequence_max + 2 =>
                   history[i].kind = "SequenceOverflow"

\* The time source was held, and a layout with four sequences a tick has
\* seen its four successful calls and the failed fifth.
C7_Witness ==
    /\ TimeHeld
    /\ config.sequence_max = 3
    /\ Len(history) = 5
    /\ history[5].kind = "SequenceOverflow"

----------------------------------------------------------------------------
(* C8.  Every request of a tick after the first sequence_max + 1 requests  *)
(* of that tick fails with SequenceOverflow: once the tick is exhausted no *)
(* call succeeds until the time source advances.                           *)
(* Fails: see C1.                                                          *)
C8_ExhaustedUntilAdvance ==
    \A j \in Increments :
        Cardinality({i \in Increments : i < j /\ TickAt(i) = TickAt(j)})
                >= config.sequence_max + 1
            => history[j].kind = "SequenceOverflow"

----------------------------------------------------------------------------
(* C9.  After a call has failed with SequenceOverflow in tick t, the first *)
(* call that the time source gives a tick greater than t succeeds and      *)
(* returns that tick with sequence 0.                                      *)
(* Fails: the carry of C18 has moved the stored tick to t + 1 with a       *)
(* sequence that is not 0, and the call of tick t + 1 continues there.     *)
C9_RetryAfterAdvance ==
    \A i \in Increments : \A j \in Increments :
        (/\ i < j
         /\ history[i].kind = "SequenceOverflow"
         /\ \A k \in Increments : (i < k /\ k < j) => history[k].candidate <= TickAt(i)
         /\ history[j].candidate > TickAt(i))
            => /\ history[j].kind = "Ok"
               /\ history[j].timestamp = history[j].candidate
               /\ history[j].sequence = 0

----------------------------------------------------------------------------
(* C10.  generate() and new() fail with TimestampOverflow exactly when the *)
(* time source succeeds and now - epoch >= timestamp_max.                  *)
(* Fails when the time source is behind the epoch (see C14): now - epoch   *)
(* is negative, the release build wraps it around to a huge value and      *)
(* returns TimestampOverflow, the debug build panics.                      *)
C10_TimestampOverflowExactly ==
    /\ \A i \in Calls :
           (history[i].kind = "TimestampOverflow")
               <=> TimestampOverflowExpected(history[i].src)
    /\ new_result.kind # "none" =>
           ((new_result.kind = "TimestampOverflow")
               <=> TimestampOverflowExpected(new_result.src))

----------------------------------------------------------------------------
(* C11.  When the time source fails with a message, new() and generate()   *)
(* fail with TimestampError carrying that message, and they fail so only   *)
(* then; the step in which generate() returns TimestampError leaves the    *)
(* counter word unchanged; and a call that goes through the counter after  *)
(* failed calls finds the word that the call through the counter before it *)
(* left behind, so it gets the sequence it would have got without them.    *)
(* (One thread: the calls are made one after the other.)                   *)
C11_TimestampError ==
    /\ [](/\ \A i \in Calls :
               /\ ~history[i].src.ok <=> history[i].kind = "TimestampError"
               /\ ~history[i].src.ok => history[i].msg = history[i].src.msg
          /\ new_result.kind # "none" =>
               /\ ~new_result.src.ok <=> new_result.kind = "TimestampError"
               /\ ~new_result.src.ok => new_result.msg = new_result.src.msg
          /\ \A i \in Calls : \A j \in Calls :
               SuccessiveIncrements(i, j) =>
                   history[j].word =
                       WordFound(WrappingAdd(history[i].word, 1),
                                 history[j].candidate))
    /\ [][ReturnsTimestampError => inner' = inner]_vars

\* A call has failed with TimestampError and its message between two
\* successful calls of one tick, and the later one got the next sequence.
C11_Witness ==
    \E i \in Calls : \E j \in Calls :
        /\ SuccessiveOks(i, j)
        /\ j = i + 2
        /\ history[i + 1].kind = "TimestampError"
        /\ history[i + 1].msg = "clock stopped"
        /\ history[j].timestamp = history[i].timestamp
        /\ history[j].sequence = history[i].sequence + 1

----------------------------------------------------------------------------
(* C12.  SnowflakeConfig::new(timestamp_bits, machine_id_bits,             *)
(* sequence_bits) fails with InvalidBitConfig if and only if one of the    *)
(* widths is 0 or their sum is greater than the width of the word (64);    *)
(* for every other triple it succeeds with timestamp_max =                 *)
(* 2^timestamp_bits - 1, sequence_max = 2^sequence_bits - 1, each mask =   *)
(* 2^bits - 1 and timestamp_shift = machine_id_bits + sequence_bits.       *)
(* Fails: the sum of the widths is a u64 sum.  For widths whose sum passes *)
(* the greatest u64 the debug build panics at the addition and the release *)
(* build wraps the sum around, finds it small and accepts the layout.      *)
C12_ConfigExactly ==
    config.kind # "none" =>
        LET timestamp_bits  == layout[1]
            machine_id_bits == layout[2]
            sequence_bits   == layout[3]
            invalid ==
                \/ timestamp_bits = 0 \/ machine_id_bits = 0 \/ sequence_bits = 0
                \/ timestamp_bits + machine_id_bits + sequence_bits > WORD_BITS
        IN  /\ config.kind = "InvalidBitConfig" <=> invalid
            /\ ~invalid =>
                   /\ config.kind = "Ok"
                   /\ config.timestamp_max = 2 ^ timestamp_bits - 1
                   /\ config.sequence_max = 2 ^ sequence_bits - 1
                   /\ config.timestamp_mask = 2 ^ timestamp_bits - 1
                   /\ config.machine_id_mask = 2 ^ machine_id_bits - 1
                   /\ config.sequence_mask = 2 ^ sequence_bits - 1
                   /\ timestamp_shift(config) = machine_id_bits + sequence_bits

----------------------------------------------------------------------------
(* C13.  Every ID returned decodes field by field: the bits above the      *)
(* machine id are the timestamp the counter returned, the middle field is  *)
(* the machine id cut to machine_id_bits (also for a machine id that does  *)
(* not fit), the low field is the sequence the counter returned, and the   *)
(* ID is the sum of the three fields in their places (no field overlaps    *)
(* another).  With the time source held, the first two IDs are the tick    *)
(* and the machine id with the sequences 0 and 1; at the default layout,   *)
(* with machine id 0x10 and the tick 0x1234, they are 0x48D010000 and      *)
(* 0x48D010001.                                                            *)
C13_Decode ==
    /\ \A i \in Oks :
           LET id == history[i].id
               machine_id_bits == config.machine_id_bits
               sequence_bits   == config.sequence_bits
           IN  /\ id \div 2 ^ (machine_id_bits + sequence_bits)
                      = history[i].timestamp
               /\ (id \div 2 ^ sequence_bits) % 2 ^ machine_id_bits
                      = machine_id % 2 ^ machine_id_bits
               /\ id % 2 ^ sequence_bits = history[i].sequence
               /\ id = Compose(history[i].timestamp, machine_id,
                               history[i].sequence)
    /\ (TimeHeld /\ Len(history) >= 2) =>
           /\ history[1].id = Compose(new_result.value, machine_id, 0)
           /\ history[2].id = Compose(new_result.value, machine_id, 1)
    /\ ExampleIds = <<DefaultSnowflake(4660, 16, 0), DefaultSnowflake(4660, 16, 1)>>

\* An ID was returned with a tick and a sequence that are not 0, by a
\* generator whose machine id does not fit its field and is not cut to 0.
C13_Witness ==
    \E i \in Oks :
        /\ history[i].timestamp > 0
        /\ history[i].sequence > 0
        /\ machine_id > config.machine_id_mask
        /\ BitAnd(machine_id, config.machine_id_mask) > 0

----------------------------------------------------------------------------
(* C14.  For every epoch and every value of the time source, also one      *)
(* behind the epoch, new() and generate() return an ID or one of the       *)
(* errors SequenceOverflow, TimestampOverflow, TimestampError,             *)
(* InvalidBitConfig: the subtraction now - epoch never aborts the call,    *)
(* and no call goes on to the counter with a time source behind the epoch  *)
(* (a wrapped difference is never accepted as a timestamp).                *)
(* Fails: `get_timestamp()? - epoch` is an unchecked u64 subtraction.  The *)
(* debug build panics when now < epoch; the release build wraps the        *)
(* difference around and accepts it when it is below timestamp_max.        *)
C14_NoUnderflow ==
    /\ \A i \in Calls :
           /\ history[i].kind \in {"Ok", "SequenceOverflow", "TimestampOverflow",
                                   "TimestampError", "InvalidBitConfig"}
           /\ i \in Increments => history[i].src.value >= epoch
    /\ new_result.kind \in {"none", "Ok", "TimestampOverflow", "TimestampError",
                            "InvalidBitConfig"}
    /\ new_result.kind = "Ok" => new_result.src.value >= epoch

----------------------------------------------------------------------------
----------------------------------------------------------------------------
(* C16.  A compare_exchange of a call fails only because another call has  *)
(* advanced the stored tick since the call last saw the word: in every     *)
(* step in which a compare_exchange fails, the tick of the word is ahead   *)
(* of the tick of the word the call expected.  A fetch_add of a call that  *)
(* does not advance the tick never makes a compare_exchange fail.          *)
(* Fails: compare_exchange compares the whole word, and a fetch_add of     *)
(* another call changes the word and leaves the tick as it is.             *)
C16_CasFailsOnlyOnAdvance ==
    [][\A t \in Threads :
           (pc[t] = "cas" /\ prev_sequence'[t] # prev_sequence[t])
               => StoredTick(inner, config) > StoredTick(prev_sequence[t], config)]_vars

----------------------------------------------------------------------------
(* C17.  A call that returns SequenceOverflow has added 1 to the counter   *)
(* word and has not taken it back: with the calls made one after the       *)
(* other, its fetch_add found the word as it was before the call, the word *)
(* after the call is that word plus 1 (a u64 addition: fetch_add wraps     *)
(* around at the top of the word), and the next call through the counter   *)
(* starts from there.                                                      *)
C17_OverflowConsumesSlot ==
    \A j \in Increments :
        history[j].kind = "SequenceOverflow" =>
            /\ history[j].word = WordBefore(j)
            /\ LeftBy(j) => inner = WrappingAdd(history[j].word, 1)
            /\ \A k \in Increments :
                   SuccessiveIncrements(j, k) =>
                       history[k].word =
                           WordFound(WrappingAdd(history[j].word, 1),
                                     history[k].candidate)

\* Two calls in a row have failed with SequenceOverflow, the later one on
\* the word the earlier one left, and the word is as the later one left it.
C17_Witness ==
    \E j \in Increments : \E k \in Increments :
        /\ SuccessiveIncrements(j, k)
        /\ history[j].kind = "SequenceOverflow"
        /\ history[k].kind = "SequenceOverflow"
        /\ history[k].word = history[j].word + 1
        /\ LeftBy(k)
        /\ inner = history[k].word + 1

----------------------------------------------------------------------------
(* C18.  The stored tick changes only through a successful                 *)
(* compare_exchange to the candidate of a caller (and when the generator   *)
(* is built): a fetch_add leaves the timestamp field of the word as it is, *)
(* for every layout and any number of calls within one tick.               *)
(* Fails: fetch_add adds 1 to the whole word.  The sequence field and its  *)
(* guard bit are followed by the rest of the machine id field and then by  *)
(* the timestamp field; after 2^timestamp_shift additions in one tick the  *)
(* carry reaches the timestamp field and the stored tick goes up by 1.     *)
C18_TickChangesOnlyByExchange ==
    [][StoredTick(inner', config) # StoredTick(inner, config) =>
           \/ new_result.kind = "none"
           \/ \E t \in DOMAIN pc :
                  /\ pc[t] = "cas" /\ pc'[t] = "add"
                  /\ inner' = new_timestamp_shifted(new_timestamp[t], config)]_vars

----------------------------------------------------------------------------
(* C19.  In every interleaving the timestamp returned by a successful call *)
(* is at least the candidate the call was given and at most the greatest   *)
(* timestamp supplied to the counter so far (the one it was built with or  *)
(* the candidate of a call started so far): the counter returns no tick    *)
(* that no caller supplied.                                                *)
(* Fails with C18: the tick that the carry of fetch_add has put into the   *)
(* word is returned by the next call, and no caller supplied it.           *)
C19_TimestampWithinSupplied ==
    \A i \in Oks :
        /\ history[i].timestamp >= history[i].candidate
        /\ history[i].timestamp <= Max(Supplied)

====
